---- MODULE Spec2Model ----
(***************************************************************************)
(* Model of the CultureCircle scraper (culturecircle_full_scraper.py):     *)
(* the convergence scroll loop, the image fetcher with bounded retries and *)
(* the run loop over the keyword work units.                               *)
(***************************************************************************)
EXTENDS Integers, Sequences, FiniteSets, TLC

\* ---------------------------------------------------------------- bounds
\* Largest number of items the listing page ever shows.
MaxItems == 2
\* Number of keywords (work units) the run iterates over.
NumUnits == 3
\* Largest number of elements the scroller hands to one keyword's extraction.
MaxPageItems == 1

\* longest price text handed to extract_price on its own
MaxTextLen == 4
\* most price spans of one product tile
MaxSpans == 2
\* longest of the short product names handed to generate_image_names
MaxNameLen == 2

\* ------------------------------------------------------ program constants
MAX_SCROLL_TRIES == 200
NO_GROWTH_CYCLES == 5

\* def download_image(image_url, folder_path, filename, max_attempts=2)
max_attempts == 2

\* The value of a result that has not been produced.
NoResult == -1

\* Python's None.
None == "None"

\* The KeyboardInterrupt a call is left with when it does not catch it.
Cancelled == "KeyboardInterrupt"

\* Image URLs of records ("" is a record without image) and the local paths
\* generate_image_names derives for them.
Urls == {"", "u1", "u2"}
Paths == {"p1", "p2"}

\* Product names the img alt attribute yields ("" when it is empty or the
\* element has no img).
Names == {"", "a"}

\* Image URLs the img src attribute yields in the run.
RunUrls == {"", "u1"}

DOWNLOAD_IMAGES == TRUE

VARIABLES
    \* infinite_scroll_load_all
    spc,            \* position: "idle", "loop", "done", "raised"
    prev_count,     \* prev_count
    stable_cycles,  \* stable_cycles
    tries,          \* tries
    s_result,       \* len() of the list the function returned, NoResult before
    \* the page-loading collaborator
    page_count,     \* number of elements the selector matches right now
    \* history of what the page showed to the scroller
    h_cycles,       \* cycles run in this call
    h_last,         \* count sampled in the latest cycle (0 before the first)
    h_change,       \* index of the latest cycle whose sample differed from the one before
    h_maxrun,       \* longest run of equal consecutive samples seen in this call
    h_dirty,        \* the page changed after the latest sample
    h_stall,        \* some run of no-growth samples was followed by growth
    h_seen,         \* count the latest find_elements of this call saw
    \* download_image
    fpc,            \* position: "idle", "loop", "backoff", "done"
    image_url,      \* argument image_url ("" when the record has none)
    local_path,     \* os.path.join(folder_path, filename)
    attempt,        \* attempt
    f_result,       \* returned value: a path, or None
    files,          \* the file system: path -> "none", "partial", "full"
    \* history of the current and of the previous call of download_image
    h_existed,      \* a file was at local_path when the call began
    h_net,          \* requests.get calls made by this call
    h_fail,         \* attempts of this call that failed
    h_ok,           \* attempts of this call that succeeded
    h_sleeps,       \* backoff sleeps of this call
    h_writes,       \* times this call opened local_path for writing
    h_cancelled,    \* the cancellation signal arrived during this call
    prev_call,      \* the call before this one, as a record
    \* scrape_culture_circle
    rpc,            \* position: "start", "nav", "scroll", "extract", "save",
                    \*           "finally", "end"
    driver,         \* "none", "open", "quit"
    unit,           \* index of the keyword of the current loop iteration
    items_left,     \* elements of items the for loop has not reached yet
    all_products,   \* all_products
    summary,        \* summary: keyword -> len(items), NoResult when unset
    persisted,      \* what the CSV and JSON files hold: <<>> when not written
    n_saves,        \* times the output files were written
    exc,            \* the exception that left the try block, "none" when none
    n_quits,        \* times driver.quit() ran
    \* history of the run
    h_visited,      \* keywords whose navigation was started
    h_navfail,      \* keywords whose navigation raised
    \* extract_price, the tier chain, parse_culture_item, parse_product
    x_op,           \* the function applied last, "none" before any
    price_text,     \* argument of extract_price
    price_out,      \* what extract_price gave
    tier_in,        \* two prices handed to the tier chain
    tier_out,       \* their tiers
    element,        \* argument of parse_culture_item
    el,             \* argument of parse_product (ajio_scrapper.py)
    parsed,         \* the record pdata the extractor gave
    \* scrape_ajio (ajio_scrapper.py); it shares rpc, driver (the browser),
    \* unit, items_left, all_products, persisted, n_saves, exc with the run
    failed_extractions, \* failed_extractions
    image_count,    \* image_count
    category_counter,   \* category_counter of the one category of the model
    brand_counter,  \* brand_counter of the one brand of the model
    success_rate,   \* success_rate in hundredths of a percent, NoResult
                    \* until the final summary computes it
    h_found,        \* raw items the result pages held so far
    h_pdata,        \* the record parse_product gave for the latest item
    h_download,     \* what download_image returned for it, "not called" when
                    \* it was not called
    \* generate_image_names
    n_pc,           \* "idle", "once" after a call, "twice" after the same
                    \* call was made again
    n_args,         \* its arguments
    n_out,          \* clean_name, clean_brand, folder_path, image_name
    n_prev          \* what the call before gave

scrollVars == <<spc, prev_count, stable_cycles, tries, s_result, page_count,
                h_cycles, h_last, h_change, h_maxrun, h_dirty, h_stall, h_seen>>

fetchVars == <<fpc, image_url, local_path, attempt, f_result, files,
               h_existed, h_net, h_fail, h_ok, h_sleeps, h_writes, h_cancelled,
               prev_call>>

runVars == <<rpc, driver, unit, items_left, all_products, summary, persisted,
             n_saves, exc, n_quits, h_visited, h_navfail>>

parseVars == <<x_op, price_text, price_out, tier_in, tier_out, element, el, parsed>>

ajioVars == <<failed_extractions, image_count, category_counter, brand_counter,
              success_rate, h_found, h_pdata, h_download>>

nameVars == <<n_pc, n_args, n_out, n_prev>>

vars == <<scrollVars, fetchVars, runVars, parseVars, ajioVars, nameVars>>

Max(a, b) == IF a >= b THEN a ELSE b

\* ------------------------------------------------------------ scroll loop

\* while tries < MAX_SCROLL_TRIES and stable_cycles < NO_GROWTH_CYCLES
ScrollContinue_LateStop ==
    tries < MAX_SCROLL_TRIES /\ stable_cycles <= NO_GROWTH_CYCLES

ScrollContinue_OffByOne ==
    tries <= MAX_SCROLL_TRIES /\ stable_cycles < NO_GROWTH_CYCLES

ScrollContinue ==
    tries < MAX_SCROLL_TRIES /\ stable_cycles < NO_GROWTH_CYCLES

\* if curr_count == prev_count: stable_cycles += 1  else: stable_cycles = 0
NextStable_NoReset(curr) ==
    IF curr = prev_count THEN stable_cycles + 1 ELSE stable_cycles

NextStable_LateThreshold(curr) ==
    IF curr = prev_count /\ tries > 0 THEN stable_cycles + 1 ELSE 0

NextStable(curr) ==
    IF curr = prev_count THEN stable_cycles + 1 ELSE 0

\* prev_count = curr_count
NextPrev_KeepFirst(curr) == IF tries = 0 THEN curr ELSE prev_count

NextPrev(curr) == curr

\* return driver.find_elements(By.CSS_SELECTOR, item_selector)
Returned(now) == now

\* The caller has navigated to a page showing n items and calls the scroller:
\* prev_count = 0, stable_cycles = 0, tries = 0.
ScrollStart(n) ==
    /\ spc \in {"idle", "done", "raised"}
    /\ spc' = "loop"
    /\ page_count' = n
    /\ prev_count' = 0
    /\ stable_cycles' = 0
    /\ tries' = 0
    /\ s_result' = NoResult
    /\ h_cycles' = 0
    /\ h_last' = 0
    /\ h_change' = 0
    /\ h_maxrun' = 0
    /\ h_dirty' = FALSE
    /\ h_stall' = FALSE
    /\ h_seen' = NoResult
    /\ UNCHANGED <<fetchVars, runVars, parseVars, ajioVars, nameVars>>

\* One pass of the while body: scroll, sleep, find_elements, compare, count.
ScrollCycle ==
    /\ spc = "loop"
    /\ ScrollContinue
    /\ LET curr_count == page_count
           run == IF curr_count = h_last THEN h_cycles + 1 - h_change ELSE 0
       IN /\ stable_cycles' = NextStable(curr_count)
          /\ prev_count' = NextPrev(curr_count)
          /\ tries' = tries + 1
          /\ h_cycles' = h_cycles + 1
          /\ h_change' = IF curr_count = h_last THEN h_change ELSE h_cycles + 1
          /\ h_maxrun' = Max(h_maxrun, run)
          /\ h_last' = curr_count
          /\ h_seen' = curr_count
          /\ h_dirty' = FALSE
          /\ h_stall' = (h_stall \/ (curr_count # h_last /\ h_cycles > h_change))
    /\ UNCHANGED <<spc, s_result, page_count>>
    /\ UNCHANGED <<fetchVars, runVars, parseVars, ajioVars, nameVars>>

\* The loop condition is false: the function queries the page once more and
\* returns that list.
ScrollReturn ==
    /\ spc = "loop"
    /\ ~ScrollContinue
    /\ spc' = "done"
    /\ s_result' = Returned(page_count)
    /\ h_seen' = page_count
    /\ UNCHANGED <<prev_count, stable_cycles, tries, page_count,
                   h_cycles, h_last, h_change, h_maxrun, h_dirty, h_stall>>
    /\ UNCHANGED <<fetchVars, runVars, parseVars, ajioVars, nameVars>>

\* execute_script or find_elements raises (WebDriverException): the function
\* is left without a return value.
ScrollRaise ==
    /\ spc = "loop"
    /\ spc' = "raised"
    /\ UNCHANGED <<prev_count, stable_cycles, tries, s_result, page_count,
                   h_cycles, h_last, h_change, h_maxrun, h_dirty, h_stall, h_seen>>
    /\ UNCHANGED <<fetchVars, runVars, parseVars, ajioVars, nameVars>>

\* The page renders more (or fewer) items on its own schedule while the
\* scroller runs.
PageLoad(n) ==
    /\ spc = "loop"
    /\ n # page_count
    /\ page_count' = n
    /\ h_dirty' = TRUE
    /\ UNCHANGED <<spc, prev_count, stable_cycles, tries, s_result,
                   h_cycles, h_last, h_change, h_maxrun, h_stall, h_seen>>
    /\ UNCHANGED <<fetchVars, runVars, parseVars, ajioVars, nameVars>>

ScrollIdle ==
    /\ spc = "idle"
    /\ prev_count = 0
    /\ stable_cycles = 0
    /\ tries = 0
    /\ s_result = NoResult
    /\ h_cycles = 0
    /\ h_last = 0
    /\ h_change = 0
    /\ h_maxrun = 0
    /\ h_dirty = FALSE
    /\ h_stall = FALSE
    /\ h_seen = NoResult

\* ------------------------------------------------------------ media fetcher

\* What one pass of the retry loop can meet:
\*   "ok"          status 200 and the body copied to the file
\*   "status"      a status other than 200
\*   "error"       requests.get raises (timeout, connection error)
\*   "open_error"  status 200, open(local_path, 'wb') raises
\*   "write_error" status 200, the file is opened, copyfileobj raises mid-body
Outcomes == {"ok", "status", "error", "open_error", "write_error"}

NoCall == [valid |-> FALSE, url |-> "", dest |-> "", existed |-> FALSE,
           result |-> None, net |-> 0, fail |-> 0, writes |-> 0]

ThisCall == [valid |-> TRUE, url |-> image_url, dest |-> local_path,
             existed |-> h_existed, result |-> f_result, net |-> h_net,
             fail |-> h_fail, writes |-> h_writes]

\* os.path.exists(local_path)
FileExists_Never(p) == FALSE

FileExists(p) == files[p] # "none"

\* while attempt < max_attempts
FetchContinue_Inclusive == attempt <= max_attempts

FetchContinue == attempt < max_attempts

\* with open(local_path, 'wb') as f: the path the body is written to
WriteTarget_Other(p) == CHOOSE q \in Paths : q # p

WriteTarget(p) == p

\* The call up to the loop: the empty-url return, makedirs, the existing-file
\* return, attempt = 0.
FetchCall(url, path) ==
    /\ fpc \in {"idle", "done"}
    /\ prev_call' = IF fpc = "done" THEN ThisCall ELSE prev_call
    /\ image_url' = url
    /\ local_path' = path
    /\ h_existed' = (files[path] # "none")
    /\ h_net' = 0
    /\ h_fail' = 0
    /\ h_ok' = 0
    /\ h_sleeps' = 0
    /\ h_writes' = 0
    /\ h_cancelled' = FALSE
    /\ attempt' = 0
    /\ IF url = ""
         THEN fpc' = "done" /\ f_result' = None
         ELSE IF FileExists(path)
                THEN fpc' = "done" /\ f_result' = path
                ELSE fpc' = "loop" /\ f_result' = None
    /\ UNCHANGED files
    /\ UNCHANGED <<scrollVars, runVars, parseVars, ajioVars, nameVars>>

\* One pass of the loop body up to the return or to attempt += 1.
FetchAttempt(o) ==
    /\ fpc = "loop"
    /\ FetchContinue
    /\ h_net' = h_net + 1
    /\ IF o = "ok"
         THEN /\ files' = [files EXCEPT ![WriteTarget(local_path)] = "full"]
              /\ h_writes' = h_writes + 1
              /\ h_ok' = h_ok + 1
              /\ f_result' = local_path
              /\ fpc' = "done"
              /\ UNCHANGED <<attempt, h_fail>>
         ELSE /\ files' = IF o = "write_error"
                            THEN [files EXCEPT ![WriteTarget(local_path)] = "partial"]
                            ELSE files
              /\ h_writes' = IF o = "write_error" THEN h_writes + 1 ELSE h_writes
              /\ attempt' = attempt + 1
              /\ h_fail' = h_fail + 1
              /\ fpc' = "backoff"
              /\ UNCHANGED <<h_ok, f_result>>
    /\ UNCHANGED <<image_url, local_path, h_existed, h_sleeps, h_cancelled,
                   prev_call>>
    /\ UNCHANGED <<scrollVars, runVars, parseVars, ajioVars, nameVars>>

\* time.sleep(1 + random.random())
FetchBackoff ==
    /\ fpc = "backoff"
    /\ h_sleeps' = h_sleeps + 1
    /\ fpc' = "loop"
    /\ UNCHANGED <<image_url, local_path, attempt, f_result, files,
                   h_existed, h_net, h_fail, h_ok, h_writes, h_cancelled, prev_call>>
    /\ UNCHANGED <<scrollVars, runVars, parseVars, ajioVars, nameVars>>

\* The loop condition is false: return None.
FetchGiveUp ==
    /\ fpc = "loop"
    /\ ~FetchContinue
    /\ f_result' = None
    /\ fpc' = "done"
    /\ UNCHANGED <<image_url, local_path, attempt, files,
                   h_existed, h_net, h_fail, h_ok, h_sleeps, h_writes, h_cancelled,
                   prev_call>>
    /\ UNCHANGED <<scrollVars, runVars, parseVars, ajioVars, nameVars>>

\* KeyboardInterrupt arrives inside requests.get or inside time.sleep: the
\* clause "except Exception" does not catch it and it leaves the function.
FetchCancel ==
    /\ fpc \in {"loop", "backoff"}
    /\ h_cancelled' = TRUE
    /\ f_result' = Cancelled
    /\ fpc' = "raised"
    /\ UNCHANGED <<image_url, local_path, attempt, files,
                   h_existed, h_net, h_fail, h_ok, h_sleeps, h_writes, prev_call>>
    /\ UNCHANGED <<scrollVars, runVars, parseVars, ajioVars, nameVars>>

\* ------------------------------------------------------- price and tier

\* A price is a float, held here as a whole number of 1/Scale; FracDigits
\* is the most decimals a text of MaxTextLen characters can carry.
FracDigits == MaxTextLen - 1

RECURSIVE Pow10(_)
Pow10(n) == IF n = 0 THEN 1 ELSE 10 * Pow10(n - 1)

Scale == Pow10(FracDigits)

\* None in a price field.
NoPrice == -1

\* float() raising ValueError out of extract_price.
ValueError == -2

Digits == {"0", "1", "2", "3", "4", "5", "6", "7", "8", "9"}

\* Characters of the price texts: digits, the decimal point, the thousands
\* separator and a letter.
Chars == {"0", "3", "8", ".", ",", "R"}

RECURSIVE TextsUpTo(_)
TextsUpTo(n) ==
    IF n = 0 THEN {<<>>}
    ELSE LET shorter == TextsUpTo(n - 1)
         IN shorter \cup {Append(t, c) : t \in {u \in shorter : Len(u) = n - 1},
                                         c \in Chars}

Texts == TextsUpTo(MaxTextLen)

DigitVal(c) ==
    CASE c = "0" -> 0 [] c = "1" -> 1 [] c = "2" -> 2 [] c = "3" -> 3
      [] c = "4" -> 4 [] c = "5" -> 5 [] c = "6" -> 6 [] c = "7" -> 7
      [] c = "8" -> 8 [] c = "9" -> 9

\* price_text.replace(',', '')
RemoveCommas(t) == SelectSeq(t, LAMBDA c : c # ",")

\* re.sub(r'[^\d.]', '', ...)
KeepNumeric(t) == SelectSeq(t, LAMBDA c : c \in Digits \cup {"."})

DotCount(t) == Len(SelectSeq(t, LAMBDA c : c = "."))

\* The texts of digits and points float() accepts: at least one digit and
\* at most one point; on every other one it raises ValueError.
IsFloatLiteral(t) == DotCount(t) <= 1 /\ Len(t) - DotCount(t) >= 1

RECURSIVE DigitsValue(_)
DigitsValue(ds) ==
    IF ds = <<>> THEN 0
    ELSE 10 * DigitsValue(SubSeq(ds, 1, Len(ds) - 1)) + DigitVal(ds[Len(ds)])

\* float(t) of an accepted text.
FloatOf(t) ==
    LET d == IF DotCount(t) = 0 THEN Len(t) + 1
             ELSE CHOOSE i \in 1..Len(t) : t[i] = "."
        whole == SubSeq(t, 1, d - 1)
        frac == SubSeq(t, d + 1, Len(t))
    IN DigitsValue(whole) * Scale + DigitsValue(frac) * Pow10(FracDigits - Len(frac))

\* extract_price of culturecircle_full_scraper.py and of scr-2.py: the
\* float() sits in a try whose except returns None.
ExtractPrice(text) ==
    IF text = <<>> THEN NoPrice
    ELSE LET cleaned == KeepNumeric(RemoveCommas(text))
         IN IF cleaned = <<>> THEN NoPrice
            ELSE IF IsFloatLiteral(cleaned) THEN FloatOf(cleaned)
            ELSE NoPrice

\* extract_price of ajio_scrapper.py: no try around float().
AjioExtractPrice(text) ==
    IF text = <<>> THEN NoPrice
    ELSE LET cleaned == KeepNumeric(RemoveCommas(text))
         IN IF cleaned = <<>> THEN NoPrice
            ELSE IF IsFloatLiteral(cleaned) THEN FloatOf(cleaned)
            ELSE ValueError

Tiers == {"unknown", "affordable", "mid", "expensive"}

\* if p is None / elif p < 3000 / elif p < 8000 / else
ClassifyTier_InclusiveUpper(p) ==
    IF p = NoPrice THEN "unknown"
    ELSE IF p <= 3000 * Scale THEN "affordable"
    ELSE IF p < 8000 * Scale THEN "mid"
    ELSE "expensive"

ClassifyTier(p) ==
    IF p = NoPrice THEN "unknown"
    ELSE IF p < 3000 * Scale THEN "affordable"
    ELSE IF p < 8000 * Scale THEN "mid"
    ELSE "expensive"

\* pdata.get("discounted_price") or pdata.get("price"): None and 0.0 are
\* both false.
TierPrice(discounted_price, price) ==
    IF discounted_price # NoPrice /\ discounted_price # 0
    THEN discounted_price
    ELSE price

\* Prices around the two thresholds, handed to the tier chain in pairs.
PricePoints ==
    {NoPrice, 0, 1,
     3000 * Scale - 1, 3000 * Scale, 3000 * Scale + 1,
     8000 * Scale - 1, 8000 * Scale, 8000 * Scale + 1,
     9999 * Scale}

\* --------------------------------------------------------- item extractor

BASE_URL == "https://culture-circle.com"

\* What get_attribute("href") gives: None, or a relative address.
Hrefs == {None, "/p/1"}

\* href.startswith("/")
StartsWithSlash(href) == href = "/p/1"

\* BASE_URL + href if href.startswith("/") else href
ProductUrl(href) ==
    IF StartsWithSlash(href) THEN "https://culture-circle.com/p/1" ELSE href

\* What the alt attribute of the img gives.
Alts == {None, " a "}

\* clean_text: re.sub(r'\s+', ' ', text.strip()) if text else ""
CleanText(text) ==
    IF text = None \/ text = "" THEN ""
    ELSE IF text = " a " THEN "a"
    ELSE text

\* x or ""
OrEmpty(x) == IF x = None THEN "" ELSE x

\* Texts of the price spans of a tile.
SpanTexts == {<<>>, <<" ">>, <<"0">>, <<"3", ",", "0", "0", "0">>, <<"R">>}

\* sp.text.replace(",", "").strip()
RECURSIVE Strip(_)
Strip(t) ==
    IF t = <<>> THEN t
    ELSE IF Head(t) = " " THEN Strip(Tail(t))
    ELSE IF t[Len(t)] = " " THEN Strip(SubSeq(t, 1, Len(t) - 1))
    ELSE t

Spans == [strike : BOOLEAN, text : SpanTexts]

RECURSIVE SpanLists(_)
SpanLists(n) ==
    IF n = 0 THEN {<<>>}
    ELSE LET shorter == SpanLists(n - 1)
         IN shorter \cup {Append(l, sp) : l \in {u \in shorter : Len(u) = n - 1},
                                          sp \in Spans}

\* A product tile as parse_culture_item sees it. href_raises: the
\* get_attribute("href") call raises (the element went stale); img_found:
\* find_element finds an img; stale_at: the span whose attribute access
\* raises, 0 when none does.
Imgs ==
    {[img_found |-> FALSE, src |-> None, alt |-> None]}
    \cup [img_found : {TRUE}, src : {None, "u1"}, alt : Alts]

Element(href_raises, href, img, spans, stale_at) ==
    [href_raises |-> href_raises, href |-> href, img_found |-> img.img_found,
     src |-> img.src, alt |-> img.alt, spans |-> spans, stale_at |-> stale_at]

StaleElement == Element(TRUE, None, [img_found |-> FALSE, src |-> None, alt |-> None],
                        <<>>, 0)

\* The for loop over the spans from span i on, with the two prices so far;
\* it ends at the span whose access raises.
RECURSIVE SpanLoop(_, _, _, _, _)
SpanLoop(spans, stale_at, i, price, discounted_price) ==
    IF i > Len(spans) \/ i = stale_at
    THEN [price |-> price, discounted_price |-> discounted_price]
    ELSE LET txt == Strip(RemoveCommas(spans[i].text))
         IN IF txt = <<>>
            THEN SpanLoop(spans, stale_at, i + 1, price, discounted_price)
            ELSE IF spans[i].strike
                 THEN SpanLoop(spans, stale_at, i + 1, ExtractPrice(txt),
                               discounted_price)
                 ELSE SpanLoop(spans, stale_at, i + 1, price, ExtractPrice(txt))

\* The price block: the loop, then price falls back to discounted_price,
\* unless an access raised and the bare except skipped the rest.
Prices(e) ==
    LET after == SpanLoop(e.spans, e.stale_at, 1, NoPrice, NoPrice)
    IN IF e.stale_at = 0 /\ after.price = NoPrice
       THEN [after EXCEPT !.price = after.discounted_price]
       ELSE after

\* parse_culture_item: the outer except returns the record as it was
\* initialised when get_attribute("href") raises.
ParseCultureItemRecord(e) ==
    IF e.href_raises
    THEN [raised |-> "none", product_url |-> "", product_name |-> "",
          image_url |-> "", price |-> NoPrice, discounted_price |-> NoPrice,
          price_tier |-> ""]
    ELSE LET pr == Prices(e)
         IN [raised |-> "none",
             product_url |-> ProductUrl(OrEmpty(e.href)),
             product_name |-> IF e.img_found THEN CleanText(OrEmpty(e.alt)) ELSE "",
             image_url |-> IF e.img_found THEN OrEmpty(e.src) ELSE "",
             price |-> pr.price,
             discounted_price |-> pr.discounted_price,
             price_tier |-> ClassifyTier(TierPrice(pr.discounted_price, pr.price))]

\* The dictionary scrape_ajio builds for parse_product: href is None when
\* the link has no href attribute; price is the text of span.price.
AjioHrefs == {None, "", "/s/1", "/p/1"}

AjioPriceTexts == {<<>>, <<"9", "9", "9">>, <<"8", ",", "0", "0", "0">>, <<".">>, <<"R">>}

ElData == [href : AjioHrefs, name : {"", "a"}, brand : {"b"},
           price : AjioPriceTexts, original_price : AjioPriceTexts,
           image : Urls]

\* "/p/" in product_url, and the text after it.
HasProductSegment(url) == url = "/p/1"

ProductId(url) == IF HasProductSegment(url) THEN "1" ELSE ""

\* parse_product of ajio_scrapper.py; raised names the exception that left
\* it: ValueError from extract_price while the dictionary is built,
\* TypeError from the "in" test on a None product_url.
AjioParseProductRecord(d) ==
    LET price == AjioExtractPrice(d.price)
        original_price == AjioExtractPrice(d.original_price)
        raised == IF price = ValueError \/ original_price = ValueError
                  THEN "ValueError"
                  ELSE IF d.href = None THEN "TypeError"
                  ELSE "none"
    IN IF raised # "none"
       THEN [raised |-> raised, product_url |-> "", product_id |-> "",
             product_name |-> "", brand |-> "", price |-> NoPrice,
             discounted_price |-> NoPrice, original_price |-> NoPrice,
             price_tier |-> "", image_url |-> "", image_path |-> ""]
       ELSE [raised |-> "none", product_url |-> d.href,
             product_id |-> ProductId(d.href), product_name |-> d.name,
             brand |-> d.brand, price |-> price, discounted_price |-> NoPrice,
             original_price |-> original_price,
             price_tier |-> ClassifyTier(price),
             image_url |-> d.image, image_path |-> ""]

NoElement == [href_raises |-> FALSE, href |-> None, img_found |-> FALSE,
              src |-> None, alt |-> None, spans |-> <<>>, stale_at |-> 0]

NoElData == [href |-> "", name |-> "", brand |-> "b", price |-> <<>>,
             original_price |-> <<>>, image |-> ""]

NoRecord == [raised |-> "no call"]

AjioIdle ==
    /\ failed_extractions = 0
    /\ image_count = 0
    /\ category_counter = 0
    /\ brand_counter = 0
    /\ success_rate = NoResult
    /\ h_found = 0
    /\ h_pdata = NoRecord
    /\ h_download = "not called"

ParseIdle ==
    /\ x_op = "none"
    /\ price_text = <<>>
    /\ price_out = NoPrice
    /\ tier_in = <<NoPrice, NoPrice>>
    /\ tier_out = <<"", "">>
    /\ element = NoElement
    /\ el = NoElData
    /\ parsed = NoRecord

CallExtractPrice(text) ==
    /\ x_op = "none"
    /\ x_op' = "extract_price"
    /\ price_text' = text
    /\ price_out' = ExtractPrice(text)
    /\ tier_in' = <<NoPrice, NoPrice>>
    /\ tier_out' = <<"", "">>
    /\ element' = NoElement
    /\ el' = NoElData
    /\ parsed' = NoRecord
    /\ UNCHANGED <<scrollVars, fetchVars, runVars, ajioVars, nameVars>>

CallAjioExtractPrice(text) ==
    /\ x_op = "none"
    /\ x_op' = "ajio_extract_price"
    /\ price_text' = text
    /\ price_out' = AjioExtractPrice(text)
    /\ tier_in' = <<NoPrice, NoPrice>>
    /\ tier_out' = <<"", "">>
    /\ element' = NoElement
    /\ el' = NoElData
    /\ parsed' = NoRecord
    /\ UNCHANGED <<scrollVars, fetchVars, runVars, ajioVars, nameVars>>

\* The tier chain applied to two prices.
Classify(p, q) ==
    /\ x_op = "none"
    /\ x_op' = "tier"
    /\ tier_in' = <<p, q>>
    /\ tier_out' = <<ClassifyTier(p), ClassifyTier(q)>>
    /\ price_text' = <<>>
    /\ price_out' = NoPrice
    /\ element' = NoElement
    /\ el' = NoElData
    /\ parsed' = NoRecord
    /\ UNCHANGED <<scrollVars, fetchVars, runVars, ajioVars, nameVars>>

ParseCultureItem(e) ==
    /\ x_op = "none"
    /\ x_op' = "parse_culture_item"
    /\ element' = e
    /\ parsed' = ParseCultureItemRecord(e)
    /\ price_text' = <<>>
    /\ price_out' = NoPrice
    /\ tier_in' = <<NoPrice, NoPrice>>
    /\ tier_out' = <<"", "">>
    /\ el' = NoElData
    /\ UNCHANGED <<scrollVars, fetchVars, runVars, ajioVars, nameVars>>

AjioParseProduct(d) ==
    /\ x_op = "none"
    /\ x_op' = "parse_product"
    /\ el' = d
    /\ parsed' = AjioParseProductRecord(d)
    /\ price_text' = <<>>
    /\ price_out' = NoPrice
    /\ tier_in' = <<NoPrice, NoPrice>>
    /\ tier_out' = <<"", "">>
    /\ element' = NoElement
    /\ UNCHANGED <<scrollVars, fetchVars, runVars, ajioVars, nameVars>>

\* ------------------------------------------------------------ media namer

\* Characters of product names and brands: an upper-case and a lower-case
\* letter, a digit, a blank and a sign.
NameChars == {"A", "b", "7", " ", "&"}

RECURSIVE NamesUpTo(_)
NamesUpTo(n) ==
    IF n = 0 THEN {<<>>}
    ELSE LET shorter == NamesUpTo(n - 1)
         IN shorter \cup {Append(t, c) : t \in {u \in shorter : Len(u) = n - 1},
                                         c \in NameChars}

\* Product names: the short ones, and two of more than 60 characters.
ProductNames ==
    NamesUpTo(MaxNameLen)
    \cup {[i \in 1..61 |-> "A"], [i \in 1..63 |-> IF i % 2 = 0 THEN " " ELSE "b"]}

\* Brands: none, short ones, and one of more than 30 characters.
Brands == {<<>>, <<"A">>, <<"&">>, <<"b", " ", "7">>, [i \in 1..31 |-> "A"]}

Categories == {"Shoes"}

Genders == {"Men", "Women"}

LowerLetters ==
    {"a", "b", "c", "d", "e", "f", "g", "h", "i", "j", "k", "l", "m",
     "n", "o", "p", "q", "r", "s", "t", "u", "v", "w", "x", "y", "z"}

UpperLetters ==
    {"A", "B", "C", "D", "E", "F", "G", "H", "I", "J", "K", "L", "M",
     "N", "O", "P", "Q", "R", "S", "T", "U", "V", "W", "X", "Y", "Z"}

\* str.lower() on one character
Lower_Identity(c) == c

Lower(c) == IF c = "A" THEN "a" ELSE c

LowerText(t) == [i \in 1..Len(t) |-> Lower(t[i])]

\* re.sub(r'[^a-zA-Z0-9\s]', '', ...)
KeepAlnumSpace(t) ==
    SelectSeq(t, LAMBDA c : c \in LowerLetters \cup UpperLetters \cup Digits \cup {" "})

RECURSIVE DropBlanks(_)
DropBlanks(t) ==
    IF t # <<>> /\ Head(t) = " " THEN DropBlanks(Tail(t)) ELSE t

\* re.sub(r'\s+', '-', ...)
RECURSIVE Hyphenate(_)
Hyphenate(t) ==
    IF t = <<>> THEN <<>>
    ELSE IF Head(t) = " " THEN <<"-">> \o Hyphenate(DropBlanks(t))
    ELSE <<Head(t)>> \o Hyphenate(Tail(t))

\* t[:n]
Take(t, n) == SubSeq(t, 1, IF Len(t) < n THEN Len(t) ELSE n)

NoBrand == <<"n", "o", "b", "r", "a", "n", "d">>

ImageExtension == <<".", "j", "p", "g">>

IMAGES_DIR == "images"

\* generate_image_names
GenerateImageNames(product_name, brand, category, gender) ==
    LET clean_name == Take(Hyphenate(KeepAlnumSpace(LowerText(product_name))), 60)
        clean_brand == Take(Hyphenate(KeepAlnumSpace(LowerText(
                           IF brand = <<>> THEN NoBrand ELSE brand))), 30)
    IN [clean_name |-> clean_name,
        clean_brand |-> clean_brand,
        folder_path |-> <<IMAGES_DIR, category, gender>>,
        image_name |-> clean_name \o <<"-">> \o clean_brand \o ImageExtension]

NoNameArgs == [product_name |-> <<>>, brand |-> <<>>, category |-> "", gender |-> ""]

NoNameOut == [clean_name |-> <<>>, clean_brand |-> <<>>, folder_path |-> <<>>,
              image_name |-> <<>>]

NameIdle ==
    /\ n_pc = "idle"
    /\ n_args = NoNameArgs
    /\ n_out = NoNameOut
    /\ n_prev = NoNameOut

\* A call of generate_image_names.
NameCall(product_name, brand, category, gender) ==
    /\ n_pc = "idle"
    /\ n_pc' = "once"
    /\ n_args' = [product_name |-> product_name, brand |-> brand,
                  category |-> category, gender |-> gender]
    /\ n_out' = GenerateImageNames(product_name, brand, category, gender)
    /\ n_prev' = n_prev
    /\ UNCHANGED <<scrollVars, fetchVars, runVars, parseVars, ajioVars>>

\* The same call once more (the next record with the same name and brand).
NameRepeat ==
    /\ n_pc = "once"
    /\ n_pc' = "twice"
    /\ n_prev' = n_out
    /\ n_out' = GenerateImageNames(n_args.product_name, n_args.brand,
                                   n_args.category, n_args.gender)
    /\ n_args' = n_args
    /\ UNCHANGED <<scrollVars, fetchVars, runVars, parseVars, ajioVars>>

\* ------------------------------------------- media fetcher of scr-2.py

\* Product ids of scr-2.py records: "" when the href has no "/p/" part.
ProductIds == {"", "1", "2"}

\* parse_product of scr-2.py: image_unique_name is set only for a record
\* with a product_id and stays "" otherwise.
ImageUniqueName(product_id) ==
    IF product_id = "" THEN ""
    ELSE IF product_id = "1" THEN "p1"
    ELSE "p2"

\* folder_path = os.path.join(IMAGES_DIR, category, gender), a directory
\* that os.makedirs has created by the time local_path is tested.
Scr2Folder == "images/Shoes/Women/"

\* os.path.join(folder_path, filename): the folder itself for filename "".
Scr2Join(filename) == IF filename = "" THEN Scr2Folder ELSE filename

\* os.path.exists(local_path): true for a file and for a directory.
Scr2Exists(p) == p = Scr2Folder \/ files[p] # "none"

\* The call up to the request: the empty-url return, makedirs, the
\* existing-path return.
Scr2Call(url, filename) ==
    /\ fpc \in {"idle", "done"}
    /\ prev_call' = IF fpc = "done" THEN ThisCall ELSE prev_call
    /\ image_url' = url
    /\ local_path' = Scr2Join(filename)
    /\ h_existed' = (filename # "" /\ files[filename] # "none")
    /\ h_net' = 0
    /\ h_fail' = 0
    /\ h_ok' = 0
    /\ h_writes' = 0
    /\ h_cancelled' = FALSE
    /\ IF url = ""
         THEN fpc' = "done" /\ f_result' = None
         ELSE IF Scr2Exists(Scr2Join(filename))
                THEN fpc' = "done" /\ f_result' = Scr2Join(filename)
                ELSE fpc' = "loop" /\ f_result' = None
    /\ UNCHANGED <<files, attempt, h_sleeps>>
    /\ UNCHANGED <<scrollVars, runVars, parseVars, ajioVars, nameVars>>

\* The try block: one request; status 200 writes the file and returns the
\* path; any other status falls through to return None; the bare except
\* returns None for everything raised inside, KeyboardInterrupt included.
Scr2Request(o) ==
    /\ fpc = "loop"
    /\ h_net' = h_net + 1
    /\ fpc' = "done"
    /\ h_cancelled' = (o = "cancel")
    /\ IF o = "ok"
         THEN /\ files' = [files EXCEPT ![local_path] = "full"]
              /\ h_writes' = h_writes + 1
              /\ h_ok' = h_ok + 1
              /\ f_result' = local_path
              /\ UNCHANGED h_fail
         ELSE /\ files' = IF o = "write_error"
                            THEN [files EXCEPT ![local_path] = "partial"]
                            ELSE files
              /\ h_writes' = IF o = "write_error" THEN h_writes + 1 ELSE h_writes
              /\ h_fail' = h_fail + 1
              /\ f_result' = None
              /\ UNCHANGED h_ok
    /\ UNCHANGED <<image_url, local_path, attempt, h_existed, h_sleeps, prev_call>>
    /\ UNCHANGED <<scrollVars, runVars, parseVars, ajioVars, nameVars>>

\* ------------------------------------------------------------ run loop

Units == 1..NumUnits

\* generate_image_names: the path is a function of the name (the brand is the
\* first word of the name; the keywords of the model share category and gender).
ImagePath(name) == IF name = "" THEN "p1" ELSE "p2"

\* download_image as its caller sees it: the file systems the call can leave.
\* An existing file is returned untouched; otherwise the retry loop ends with
\* the image written, with nothing written, or with a partly written file.
DownloadEffects(url, path) ==
    IF url = "" \/ FileExists(path)
      THEN {files}
      ELSE {[files EXCEPT ![WriteTarget(path)] = "full"],
            files,
            [files EXCEPT ![WriteTarget(path)] = "partial"]}

\* parse_culture_item: the record built from one element (it catches every
\* exception and returns the record in all cases).
ParseItem(name, img) ==
    [unit |-> unit, product_name |-> name, image_url |-> img]

\* all_products.append(pdata)
Accept(pdata) == Append(all_products, pdata)

\* os.makedirs, create_driver, all_products = [], summary = {}
RunStart(ok) ==
    /\ rpc = "start"
    /\ IF ok
         THEN driver' = "open" /\ rpc' = "nav" /\ exc' = "none"
         ELSE driver' = "none" /\ rpc' = "end" /\ exc' = "driver"
    /\ UNCHANGED <<unit, items_left, all_products, summary, persisted, n_saves,
                   n_quits, h_visited, h_navfail>>
    /\ UNCHANGED <<scrollVars, fetchVars, parseVars, ajioVars, nameVars>>

\* driver.get(SEARCH_URL + keyword): it returns, or it raises and the
\* exception leaves the for loops and the try block.
Navigate(ok) ==
    /\ rpc = "nav"
    /\ h_visited' = h_visited \cup {unit}
    /\ IF ok
         THEN rpc' = "scroll" /\ UNCHANGED <<exc, h_navfail>>
         ELSE rpc' = "finally" /\ exc' = "nav" /\ h_navfail' = h_navfail \cup {unit}
    /\ UNCHANGED <<driver, unit, items_left, all_products, summary, persisted,
                   n_saves, n_quits>>
    /\ UNCHANGED <<scrollVars, fetchVars, parseVars, ajioVars, nameVars>>

\* items = infinite_scroll_load_all(...): the call returns the list the page
\* shows after the loop; summary[keyword] = len(items).
RunScroll(n) ==
    /\ rpc = "scroll"
    /\ items_left' = n
    /\ summary' = [summary EXCEPT ![unit] = n]
    /\ rpc' = "extract"
    /\ UNCHANGED <<driver, unit, all_products, persisted, n_saves, exc, n_quits,
                   h_visited, h_navfail>>
    /\ UNCHANGED <<scrollVars, fetchVars, parseVars, ajioVars, nameVars>>

\* infinite_scroll_load_all raises (execute_script or find_elements): the
\* exception leaves the for loops and the try block.
RunScrollRaise ==
    /\ rpc = "scroll"
    /\ rpc' = "finally"
    /\ exc' = "scroll"
    /\ UNCHANGED <<driver, unit, items_left, all_products, summary, persisted,
                   n_saves, n_quits, h_visited, h_navfail>>
    /\ UNCHANGED <<scrollVars, fetchVars, parseVars, ajioVars, nameVars>>

\* KeyboardInterrupt (the external cancellation signal) arrives while the
\* driver navigates, the scroller sleeps or queries, an element is processed
\* or an image is fetched: no except clause of the run catches it, it leaves
\* the for loops and the try block.
RunCancel ==
    /\ rpc \in {"nav", "scroll", "extract"}
    /\ rpc' = "finally"
    /\ exc' = "cancel"
    /\ UNCHANGED <<driver, unit, items_left, all_products, summary, persisted,
                   n_saves, n_quits, h_visited, h_navfail>>
    /\ UNCHANGED <<scrollVars, fetchVars, parseVars, ajioVars, nameVars>>

\* One pass of "for el in items": parse, append, download the image.
ExtractItem(name, img) ==
    /\ rpc = "extract"
    /\ items_left > 0
    /\ LET pdata == ParseItem(name, img)
       IN /\ all_products' = Accept(pdata)
          /\ IF DOWNLOAD_IMAGES /\ pdata.image_url # ""
               THEN files' \in DownloadEffects(pdata.image_url,
                                               ImagePath(pdata.product_name))
               ELSE files' = files
    /\ items_left' = items_left - 1
    /\ UNCHANGED <<rpc, driver, unit, summary, persisted, n_saves, exc, n_quits,
                   h_visited, h_navfail>>
    /\ UNCHANGED <<fpc, image_url, local_path, attempt, f_result,
                   h_existed, h_net, h_fail, h_ok, h_sleeps, h_writes, h_cancelled,
                   prev_call>>
    /\ UNCHANGED <<scrollVars, parseVars, ajioVars, nameVars>>

NextKeyword_Early ==
    /\ rpc = "extract"
    /\ IF unit < NumUnits
         THEN unit' = unit + 1 /\ rpc' = "nav"
         ELSE unit' = unit /\ rpc' = "save"
    /\ UNCHANGED <<driver, items_left, all_products, summary, persisted, n_saves,
                   exc, n_quits, h_visited, h_navfail>>
    /\ UNCHANGED <<scrollVars, fetchVars, parseVars, ajioVars, nameVars>>

\* items is exhausted: the next keyword, or the statements after the loops.
NextKeyword ==
    /\ rpc = "extract"
    /\ items_left = 0
    /\ IF unit < NumUnits
         THEN unit' = unit + 1 /\ rpc' = "nav"
         ELSE unit' = unit /\ rpc' = "save"
    /\ UNCHANGED <<driver, items_left, all_products, summary, persisted, n_saves,
                   exc, n_quits, h_visited, h_navfail>>
    /\ UNCHANGED <<scrollVars, fetchVars, parseVars, ajioVars, nameVars>>

\* df.to_csv and json.dump of all_products; a write that raises leaves the
\* try block.
Save_OutsideTry(ok) ==
    /\ rpc = "save"
    /\ rpc' = IF ok THEN "finally" ELSE "end"
    /\ IF ok
         THEN persisted' = all_products /\ n_saves' = n_saves + 1 /\ exc' = exc
         ELSE persisted' = persisted /\ n_saves' = n_saves /\ exc' = "save"
    /\ UNCHANGED <<driver, unit, items_left, all_products, summary, n_quits,
                   h_visited, h_navfail>>
    /\ UNCHANGED <<scrollVars, fetchVars, parseVars, ajioVars, nameVars>>

Save(ok) ==
    /\ rpc = "save"
    /\ rpc' = "finally"
    /\ IF ok
         THEN persisted' = all_products /\ n_saves' = n_saves + 1 /\ exc' = exc
         ELSE persisted' = persisted /\ n_saves' = n_saves /\ exc' = "save"
    /\ UNCHANGED <<driver, unit, items_left, all_products, summary, n_quits,
                   h_visited, h_navfail>>
    /\ UNCHANGED <<scrollVars, fetchVars, parseVars, ajioVars, nameVars>>

\* finally: driver.quit()
Finally ==
    /\ rpc = "finally"
    /\ driver' = "quit"
    /\ n_quits' = n_quits + 1
    /\ rpc' = "end"
    /\ UNCHANGED <<unit, items_left, all_products, summary, persisted, n_saves,
                   exc, h_visited, h_navfail>>
    /\ UNCHANGED <<scrollVars, fetchVars, parseVars, ajioVars, nameVars>>

RunIdle ==
    /\ rpc = "start"
    /\ driver = "none"
    /\ unit = 1
    /\ items_left = 0
    /\ all_products = <<>>
    /\ summary = [u \in Units |-> NoResult]
    /\ persisted = <<>>
    /\ n_saves = 0
    /\ exc = "none"
    /\ n_quits = 0
    /\ h_visited = {}
    /\ h_navfail = {}

FetchIdle ==
    /\ fpc = "idle"
    /\ image_url = ""
    /\ local_path = "p1"
    /\ attempt = 0
    /\ f_result = None
    /\ h_existed = FALSE
    /\ h_net = 0
    /\ h_fail = 0
    /\ h_ok = 0
    /\ h_sleeps = 0
    /\ h_writes = 0
    /\ h_cancelled = FALSE
    /\ prev_call = NoCall

\* The output directory carries the time stamp of the run: it starts empty.
InitFetch ==
    /\ FetchIdle
    /\ NameIdle
    /\ AjioIdle
    /\ ParseIdle
    /\ files = [p \in Paths |-> "none"]
    /\ ScrollIdle
    /\ page_count = 0
    /\ RunIdle

NextFetch ==
    \/ \E url \in Urls, path \in Paths : FetchCall(url, path)
    \/ \E o \in Outcomes : FetchAttempt(o)
    \/ FetchBackoff
    \/ FetchGiveUp
    \/ FetchCancel

SpecFetch == InitFetch /\ [][NextFetch]_vars

\* A started call runs on: requests.get has a timeout and the sleep is finite.
SpecFetchFair ==
    SpecFetch /\ WF_vars((\E o \in Outcomes : FetchAttempt(o)) \/ FetchBackoff \/ FetchGiveUp)

NextFetchScr2 ==
    \/ \E url \in Urls, product_id \in ProductIds :
          Scr2Call(url, ImageUniqueName(product_id))
    \/ \E o \in Outcomes \cup {"cancel"} : Scr2Request(o)

SpecFetchScr2 == InitFetch /\ [][NextFetchScr2]_vars

\* ------------------------------------------- run loop of ajio_scrapper.py

\* The tiles the result pages of the model show: with or without href
\* attribute, name and image, all without price text.
AjioTiles ==
    {d \in ElData : /\ d.href \in {None, "/p/1"}
                    /\ d.price = <<>>
                    /\ d.original_price = <<>>}

\* generate_image_names: folder_path joined with image_name, and
\* relative_path.
AjioImagePath(product_name, brand) == "p2"

AjioRelativePath(product_name, brand) == "images/Shoes/Men/a-b.jpg"

\* What the fetch inside download_image can do: deliver the bytes that are
\* then written, raise before the file is opened, or raise while it is
\* written.
AjioOutcomes == {"ok", "error", "write_error"}

\* download_image of ajio_scrapper.py: the value it returns; the bare except
\* turns every failure into None.
AjioDownloadResult(path, o) ==
    IF files[path] # "none" THEN path
    ELSE IF o = "ok" THEN path
    ELSE None

\* ... and the file system it leaves: a file written in full holds the
\* bytes of the URL that was fetched.
AjioDownloadFiles(path, url, o) ==
    IF files[path] # "none" THEN files
    ELSE IF o = "ok" THEN [files EXCEPT ![path] = url]
    ELSE IF o = "write_error" THEN [files EXCEPT ![path] = "partial"]
    ELSE files

\* failed_extractions += 1
NextFailed_Same == failed_extractions

NextFailed == failed_extractions + 1

\* if local_path: image_count += 1
NextImageCount_Always(local) == image_count + 1

NextImageCount(local) == IF local # None THEN image_count + 1 ELSE image_count

\* if local_path: pdata["image_path"] = relative_path
WithImagePath(rec, local) ==
    IF local # None
    THEN [rec EXCEPT !.image_path = AjioRelativePath(rec.product_name, rec.brand)]
    ELSE rec

\* p.chromium.launch, browser.new_page
AjioStart ==
    /\ rpc = "start"
    /\ driver' = "open"
    /\ rpc' = "nav"
    /\ UNCHANGED <<unit, items_left, all_products, summary, persisted, n_saves,
                   exc, n_quits, h_visited, h_navfail>>
    /\ UNCHANGED <<scrollVars, fetchVars, parseVars, ajioVars, nameVars>>

\* page.goto and wait_for_selector in a try; the except prints and continues
\* with the next keyword.
AjioNavigate(ok) ==
    /\ rpc = "nav"
    /\ h_visited' = h_visited \cup {unit}
    /\ IF ok
         THEN rpc' = "scroll" /\ UNCHANGED <<unit, h_navfail>>
         ELSE /\ h_navfail' = h_navfail \cup {unit}
              /\ IF unit < NumUnits
                   THEN unit' = unit + 1 /\ rpc' = "nav"
                   ELSE unit' = unit /\ rpc' = "close"
    /\ UNCHANGED <<driver, items_left, all_products, summary, persisted, n_saves,
                   exc, n_quits>>
    /\ UNCHANGED <<scrollVars, fetchVars, parseVars, ajioVars, nameVars>>

\* The scroll loop, then items = page.query_selector_all(...).
AjioScroll(n) ==
    /\ rpc = "scroll"
    /\ items_left' = n
    /\ h_found' = h_found + n
    /\ rpc' = "extract"
    /\ UNCHANGED <<driver, unit, all_products, summary, persisted, n_saves, exc,
                   n_quits, h_visited, h_navfail>>
    /\ UNCHANGED <<failed_extractions, image_count, category_counter,
                   brand_counter, success_rate, h_pdata, h_download>>
    /\ UNCHANGED <<scrollVars, fetchVars, parseVars, nameVars>>

\* One iteration of "for item in items": el_data, parse_product, the
\* empty-name continue, the download, the append and the counters. An
\* exception of parse_product leaves scrape_ajio; the with block closes the
\* browser on the way out.
AjioExtractItem(d, o) ==
    /\ rpc = "extract"
    /\ items_left > 0
    /\ LET rec == AjioParseProductRecord(d)
           path == AjioImagePath(rec.product_name, rec.brand)
           fetch == DOWNLOAD_IMAGES /\ rec.image_url # ""
           local == IF fetch THEN AjioDownloadResult(path, o) ELSE None
       IN /\ h_pdata' = rec
          /\ IF rec.raised # "none"
               THEN /\ rpc' = "end"
                    /\ exc' = rec.raised
                    /\ driver' = "quit"
                    /\ h_download' = "not called"
                    /\ UNCHANGED <<items_left, all_products, files,
                                   failed_extractions, image_count,
                                   category_counter, brand_counter>>
               ELSE IF rec.product_name = ""
               THEN /\ failed_extractions' = NextFailed
                    /\ items_left' = items_left - 1
                    /\ h_download' = "not called"
                    /\ UNCHANGED <<rpc, exc, driver, all_products, files,
                                   image_count, category_counter, brand_counter>>
               ELSE /\ files' = IF fetch THEN AjioDownloadFiles(path, rec.image_url, o)
                                         ELSE files
                    /\ h_download' = IF fetch THEN local ELSE "not called"
                    /\ image_count' = IF fetch THEN NextImageCount(local)
                                      ELSE image_count
                    /\ all_products' = Append(all_products, WithImagePath(rec, local))
                    /\ category_counter' = category_counter + 1
                    /\ brand_counter' = brand_counter + 1
                    /\ items_left' = items_left - 1
                    /\ UNCHANGED <<rpc, exc, driver, failed_extractions>>
    /\ UNCHANGED <<unit, summary, persisted, n_saves, n_quits, h_visited, h_navfail,
                   success_rate, h_found>>
    /\ UNCHANGED <<fpc, image_url, local_path, attempt, f_result,
                   h_existed, h_net, h_fail, h_ok, h_sleeps, h_writes, h_cancelled,
                   prev_call>>
    /\ UNCHANGED <<scrollVars, parseVars, nameVars>>

\* items is exhausted: the next keyword, or the end of the loops.
AjioNextKeyword ==
    /\ rpc = "extract"
    /\ items_left = 0
    /\ IF unit < NumUnits
         THEN unit' = unit + 1 /\ rpc' = "nav"
         ELSE unit' = unit /\ rpc' = "close"
    /\ UNCHANGED <<driver, items_left, all_products, summary, persisted, n_saves,
                   exc, n_quits, h_visited, h_navfail>>
    /\ UNCHANGED <<scrollVars, fetchVars, parseVars, ajioVars, nameVars>>

\* browser.close()
AjioClose ==
    /\ rpc = "close"
    /\ driver' = "quit"
    /\ n_quits' = n_quits + 1
    /\ rpc' = "save"
    /\ UNCHANGED <<unit, items_left, all_products, summary, persisted, n_saves,
                   exc, h_visited, h_navfail>>
    /\ UNCHANGED <<scrollVars, fetchVars, parseVars, ajioVars, nameVars>>

\* A division raising ZeroDivisionError.
ZeroDivisionError == -3

\* round(n / d, 0) of two non-negative integers, to the nearest integer
\* (the even one on a tie).
RoundDiv(n, d) ==
    IF d = 0 THEN ZeroDivisionError
    ELSE LET q == n \div d
             r == n % d
         IN IF 2 * r < d THEN q
            ELSE IF 2 * r > d THEN q + 1
            ELSE IF q % 2 = 0 THEN q ELSE q + 1

\* round(total_products / (total_products + failed_extractions) * 100, 2)
\*     if total_products > 0 else 0
SuccessRate_NoGuard(total_products, failed) ==
    RoundDiv(total_products * 10000, total_products + failed)

SuccessRate(total_products, failed) ==
    IF total_products > 0
    THEN RoundDiv(total_products * 10000, total_products + failed)
    ELSE 0

\* df.to_csv and json.dump, then the final summary; an error while writing
\* leaves scrape_ajio.
AjioSave(ok) ==
    /\ rpc = "save"
    /\ rpc' = "end"
    /\ IF ok
         THEN /\ persisted' = all_products
              /\ n_saves' = n_saves + 1
              /\ exc' = exc
              /\ success_rate' = SuccessRate(Len(all_products), failed_extractions)
         ELSE /\ persisted' = persisted
              /\ n_saves' = n_saves
              /\ exc' = "save"
              /\ success_rate' = success_rate
    /\ UNCHANGED <<driver, unit, items_left, all_products, summary, n_quits,
                   h_visited, h_navfail>>
    /\ UNCHANGED <<failed_extractions, image_count, category_counter,
                   brand_counter, h_found, h_pdata, h_download>>
    /\ UNCHANGED <<scrollVars, fetchVars, parseVars, nameVars>>

InitAjio ==
    /\ RunIdle
    /\ NameIdle
    /\ AjioIdle
    /\ FetchIdle
    /\ files = [p \in Paths |-> "none"]
    /\ ScrollIdle
    /\ page_count = 0
    /\ ParseIdle

NextAjio ==
    \/ AjioStart
    \/ \E ok \in BOOLEAN : AjioNavigate(ok)
    \/ \E n \in 0..MaxPageItems : AjioScroll(n)
    \/ \E d \in AjioTiles, o \in AjioOutcomes : AjioExtractItem(d, o)
    \/ AjioNextKeyword
    \/ AjioClose
    \/ \E ok \in BOOLEAN : AjioSave(ok)

SpecAjio == InitAjio /\ [][NextAjio]_vars

\* ------------------------------------------------ specification: media namer

InitName ==
    /\ NameIdle
    /\ RunIdle
    /\ AjioIdle
    /\ FetchIdle
    /\ files = [p \in Paths |-> "none"]
    /\ ScrollIdle
    /\ page_count = 0
    /\ ParseIdle

NextName ==
    \/ n_pc = "idle" /\
         \E product_name \in ProductNames, brand \in Brands,
            category \in Categories, gender \in Genders :
               NameCall(product_name, brand, category, gender)
    \/ NameRepeat

SpecName == InitName /\ [][NextName]_vars

\* ------------------------------------- specification: price and extractor

InitParse ==
    /\ ParseIdle
    /\ NameIdle
    /\ AjioIdle
    /\ ScrollIdle
    /\ page_count = 0
    /\ FetchIdle
    /\ files = [p \in Paths |-> "none"]
    /\ RunIdle

\* One function is applied, once, to an argument drawn from its domain.
NextParse ==
    \/ x_op = "none" /\ \E text \in Texts : CallExtractPrice(text)
    \/ x_op = "none" /\ \E text \in Texts : CallAjioExtractPrice(text)
    \/ x_op = "none" /\ \E p \in PricePoints, q \in PricePoints : Classify(p, q)
    \/ x_op = "none" /\ ParseCultureItem(StaleElement)
    \/ x_op = "none" /\
          \E href \in Hrefs, img \in Imgs, spans \in SpanLists(MaxSpans) :
             \E stale_at \in 0..Len(spans) :
                ParseCultureItem(Element(FALSE, href, img, spans, stale_at))
    \/ x_op = "none" /\ \E d \in ElData : AjioParseProduct(d)

SpecParse == InitParse /\ [][NextParse]_vars

\* ------------------------------------------------ specifications: scroll

InitScroll ==
    /\ ScrollIdle
    /\ NameIdle
    /\ AjioIdle
    /\ ParseIdle
    /\ page_count \in 0..MaxItems
    /\ FetchIdle
    /\ files = [p \in Paths |-> "none"]
    /\ RunIdle

NextScroll ==
    \/ \E n \in 0..MaxItems : ScrollStart(n)
    \/ ScrollCycle
    \/ ScrollReturn
    \/ ScrollRaise
    \/ \E n \in 0..MaxItems : PageLoad(n)

SpecScroll == InitScroll /\ [][NextScroll]_vars

\* The interpreter runs the loop body and the return statement whenever they
\* are the next statement; the sleeps are finite.
SpecScrollFair == SpecScroll /\ WF_vars(ScrollCycle \/ ScrollReturn)

\* --------------------------------------------------- specification: run

InitRun ==
    /\ RunIdle
    /\ NameIdle
    /\ AjioIdle
    /\ ParseIdle
    /\ FetchIdle
    /\ files = [p \in Paths |-> "none"]
    /\ ScrollIdle
    /\ page_count = 0

NextRun ==
    \/ \E ok \in BOOLEAN : RunStart(ok)
    \/ \E ok \in BOOLEAN : Navigate(ok)
    \/ \E n \in 0..MaxPageItems : RunScroll(n)
    \/ RunScrollRaise
    \/ RunCancel
    \/ \E name \in Names, img \in RunUrls : ExtractItem(name, img)
    \/ NextKeyword
    \/ \E ok \in BOOLEAN : Save(ok)
    \/ Finally

SpecRun == InitRun /\ [][NextRun]_vars

\* The interpreter runs each statement of the run in turn; the driver calls
\* time out.
SpecRunFair == SpecRun /\ WF_vars(NextRun)

\* ------------------------------------------------- claims: scroll loop

\* The scroller returned and no run of equal consecutive samples ever
\* reached the threshold.
NeverStabilized == spc = "done" /\ h_maxrun < NO_GROWTH_CYCLES

C1_Exhausted ==
    NeverStabilized =>
        /\ h_cycles = MAX_SCROLL_TRIES
        /\ tries = MAX_SCROLL_TRIES
        /\ stable_cycles < NO_GROWTH_CYCLES
        /\ s_result = h_seen

GrewThenFlat ==
    /\ spc = "done"
    /\ h_cycles - h_change >= NO_GROWTH_CYCLES
    /\ h_change + NO_GROWTH_CYCLES < MAX_SCROLL_TRIES
    /\ ~h_dirty

\* C2: when the count changes for g cycles and is then flat for at least
\* NO_GROWTH_CYCLES cycles with g + NO_GROWTH_CYCLES < MAX_SCROLL_TRIES, the
\* scroller stops with stable_cycles = NO_GROWTH_CYCLES after
\* g + NO_GROWTH_CYCLES cycles, fewer than MAX_SCROLL_TRIES, and returns the
\* stabilized item list.
C2_Converged ==
    GrewThenFlat =>
        /\ stable_cycles = NO_GROWTH_CYCLES
        /\ h_cycles = h_change + NO_GROWTH_CYCLES
        /\ tries = h_cycles
        /\ tries < MAX_SCROLL_TRIES
        /\ s_result = h_last

C2_Witness ==
    /\ GrewThenFlat
    /\ h_change = 5
    /\ stable_cycles = NO_GROWTH_CYCLES
    /\ s_result = MaxItems

\* A step of the loop that changes the scroll state.
CycleStep ==
    /\ spc = "loop"
    /\ spc' = "loop"
    /\ <<prev_count, stable_cycles, tries>>' # <<prev_count, stable_cycles, tries>>

\* C3: a cycle that observes N = prev_count adds one to stable_cycles and
\* keeps prev_count, any other cycle sets stable_cycles to 0 and prev_count
\* to N; both add one to tries; a cycle runs only while
\* stable_cycles < NO_GROWTH_CYCLES and tries < MAX_SCROLL_TRIES, and the
\* scroller returns only when that condition is false.
C3_CycleUpdate ==
    [][ /\ CycleStep =>
            /\ stable_cycles < NO_GROWTH_CYCLES /\ tries < MAX_SCROLL_TRIES
            /\ tries' = tries + 1
            /\ IF page_count = prev_count
                 THEN stable_cycles' = stable_cycles + 1 /\ prev_count' = prev_count
                 ELSE stable_cycles' = 0 /\ prev_count' = page_count
        /\ (spc = "loop" /\ spc' = "done") =>
            ~(stable_cycles < NO_GROWTH_CYCLES /\ tries < MAX_SCROLL_TRIES)
      ]_vars

C3_Witness ==
    /\ spc = "loop"
    /\ tries = 3
    /\ stable_cycles = 1
    /\ prev_count = MaxItems
    /\ h_change = 2

\* C4: when the scroller stops below the ceiling, the last NO_GROWTH_CYCLES
\* samples all equal the sample before them (the initial 0 when there is
\* none): a shorter run of no-growth samples followed by growth never ends
\* the loop.
C4_NoPrematureStop ==
    (spc = "done" /\ tries < MAX_SCROLL_TRIES) =>
        h_cycles - h_change >= NO_GROWTH_CYCLES

C4_Witness ==
    /\ spc = "done"
    /\ tries < MAX_SCROLL_TRIES
    /\ h_stall
    /\ h_change > 0

\* ------------------------------------------------- claims: media fetcher

\* C8: a call with a non-empty URL that finds a file at the destination
\* returns that path at once: no request, no sleep, no write to the file.
C8_ExistingFileShortCircuit ==
    (fpc # "idle" /\ image_url # "" /\ h_existed) =>
        /\ fpc = "done"
        /\ f_result = local_path
        /\ h_net = 0
        /\ h_sleeps = 0
        /\ h_writes = 0

C8_Witness ==
    /\ fpc = "done"
    /\ image_url = "u1"
    /\ h_existed
    /\ files[local_path] = "full"
    /\ f_result = local_path
    /\ h_net = 0

\* Two calls in a row with the same non-empty URL and the same destination,
\* both returned.
TwoCallsSame ==
    /\ fpc = "done"
    /\ prev_call.valid
    /\ image_url # ""
    /\ prev_call.url = image_url
    /\ prev_call.dest = local_path

\* C9 as stated: two calls in a row for the same URL and destination make
\* exactly one network attempt in total (taken with no file at the
\* destination before the first call).
C9_ExactlyOneAttempt ==
    (TwoCallsSame /\ ~prev_call.existed) => prev_call.net + h_net = 1

\* C9 amended: when the first of the two calls returned a path, the second
\* makes no network attempt and returns the same path; the total is exactly
\* one attempt when no file existed before and the first call's first attempt
\* succeeded.
C9_SecondShortCircuits ==
    TwoCallsSame =>
        /\ prev_call.result # None => (h_net = 0 /\ f_result = prev_call.result)
        /\ (~prev_call.existed /\ prev_call.fail = 0) => prev_call.net + h_net = 1

C9_Witness ==
    /\ TwoCallsSame
    /\ ~prev_call.existed
    /\ prev_call.net = 1
    /\ prev_call.result = local_path
    /\ h_existed
    /\ h_net = 0
    /\ f_result = local_path

\* A call with a non-empty URL that found no file at the destination and
\* that no KeyboardInterrupt has cut short.
FetchingCall == fpc # "idle" /\ image_url # "" /\ ~h_existed /\ ~h_cancelled

C10_Attempts ==
    FetchingCall =>
        /\ h_net <= max_attempts
        /\ h_net = h_fail + h_ok
        /\ attempt = h_fail
        /\ h_sleeps = IF fpc = "backoff" THEN h_fail - 1 ELSE h_fail
        /\ h_ok > 0 => (h_ok = 1 /\ fpc = "done" /\ f_result = local_path)
        /\ (fpc = "done" /\ h_ok = 0) => (f_result = None /\ h_fail = max_attempts)

\* C10: with no file at the destination a call makes at most max_attempts
\* requests, one at a time; the first attempt that succeeds (status 200 and
\* the body written) ends the call with the local path; every other attempt
\* (another status, or an error raised by the request or while the body is
\* written) adds one to attempt and is followed by one sleep; after
\* max_attempts failed attempts the call returns None; and every call ends.
C10_BoundedRetries ==
    /\ []C10_Attempts
    /\ (fpc \in {"loop", "backoff"}) ~> (fpc \in {"done", "raised"})

C10_Witness ==
    /\ FetchingCall
    /\ fpc = "done"
    /\ image_url = "u1"
    /\ h_fail = max_attempts
    /\ h_sleeps = max_attempts
    /\ f_result = None

\* ------------------------------------------------------- claims: run loop

\* C5: when the navigation of some keywords fails, those keywords yield no
\* record, every other keyword is still processed, and the run writes the
\* records of all the other keywords, which are what it reports as scraped.
C5_NavigationFailureSkipsUnit ==
    (rpc = "end" /\ h_navfail # {} /\ all_products # <<>>) =>
        /\ h_visited = Units
        /\ n_saves = 1
        /\ persisted = all_products
        /\ \A i \in DOMAIN persisted : persisted[i].unit \notin h_navfail

\* C6: an error raised while a keyword's page is scrolled or queried does not
\* end the run: the remaining keywords are visited and the records accepted
\* before the error are written to the output.
C6_FailureDoesNotAbortRun ==
    (rpc = "end" /\ exc = "scroll" /\ all_products # <<>>) =>
        /\ h_visited = Units
        /\ n_saves = 1
        /\ \A i \in DOMAIN all_products :
               \E j \in DOMAIN persisted : persisted[j] = all_products[i]

\* C7: a record whose product_name is empty is never appended to the record
\* collection and never written to the output.
C7_EmptyNameNeverAccepted ==
    /\ \A i \in DOMAIN all_products : all_products[i].product_name # ""
    /\ \A i \in DOMAIN persisted : persisted[i].product_name # ""

\* C11: a call that ends in failure leaves no file at the destination path,
\* also when an error interrupted the writing of the body.
C11_NoFileAfterFailure ==
    (fpc = "done" /\ image_url # "" /\ ~h_existed /\ f_result = None) =>
        files[local_path] = "none"

\* C12: every run that created the driver, was not cancelled and whose
\* output files can be written writes the record collection exactly once,
\* after the last keyword was processed, and holds what was collected.
C12_PersistedExactlyOnce ==
    (rpc = "end" /\ exc \notin {"driver", "save", "cancel"}) =>
        /\ n_saves = 1
        /\ h_visited = Units
        /\ persisted = all_products

\* C13: when the cancellation signal arrives while a keyword is scrolled or
\* extracted, the run ends and the records collected up to that point are
\* written to the output.
C13_CancelPersistsCollected ==
    (rpc = "end" /\ exc = "cancel" /\ all_products # <<>>) =>
        /\ n_saves = 1
        /\ persisted = all_products

\* C14: a call during which the cancellation signal arrives makes no further
\* attempt and ends with an outcome of its own, neither a path nor the None
\* of an unavailable image.
C14_CancelledIsReported ==
    h_cancelled => (fpc = "raised" /\ f_result = Cancelled)

\* -------------------------------------- claims: price, tier and extractor

\* The price the tier of a record stands for: the discounted price when
\* the record has one, its price otherwise.
EffectivePrice(r) ==
    IF r.discounted_price # NoPrice THEN r.discounted_price ELSE r.price

\* C15: every record an extractor returns carries one of the four tiers,
\* and that tier is the tier of its discounted price when it has one (a
\* discounted price of 0 included) and of its price otherwise.
C15_TierOfEffectivePrice ==
    (x_op \in {"parse_culture_item", "parse_product"} /\ parsed.raised = "none") =>
        /\ parsed.price_tier \in Tiers
        /\ parsed.price_tier = ClassifyTier(EffectivePrice(parsed))

TierRank(t) ==
    CASE t = "affordable" -> 1 [] t = "mid" -> 2 [] t = "expensive" -> 3
      [] OTHER -> 0

StepTier(p, t) ==
    /\ t \in Tiers
    /\ t = "unknown" <=> p = NoPrice
    /\ t = "affordable" <=> (p # NoPrice /\ p < 3000 * Scale)
    /\ t = "mid" <=> (3000 * Scale <= p /\ p < 8000 * Scale)
    /\ t = "expensive" <=> p >= 8000 * Scale

\* C16: the tier chain gives unknown for None, affordable below 3000, mid
\* from 3000 to below 8000, expensive from 8000 on; of two prices p <= q
\* the tier of q is never cheaper than the tier of p; and the two tiers
\* differ exactly when 3000 or 8000 lies in the interval from above p up to q.
C16_StepFunction ==
    x_op = "tier" =>
        LET p == tier_in[1]
            q == tier_in[2]
        IN /\ StepTier(p, tier_out[1])
           /\ StepTier(q, tier_out[2])
           /\ (p # NoPrice /\ q # NoPrice /\ p <= q) =>
                /\ TierRank(tier_out[1]) <= TierRank(tier_out[2])
                /\ tier_out[1] # tier_out[2] <=>
                     \/ (p < 3000 * Scale /\ 3000 * Scale <= q)
                     \/ (p < 8000 * Scale /\ 8000 * Scale <= q)

C16_Witness ==
    /\ x_op = "tier"
    /\ tier_in = <<3000 * Scale - 1, 3000 * Scale>>
    /\ tier_out = <<"affordable", "mid">>

\* C17: an extractor never raises, whatever attributes of the raw item are
\* empty, missing or None.
C17_ExtractorNeverRaises ==
    x_op \in {"parse_culture_item", "parse_product"} => parsed.raised = "none"

\* C18: extract_price never raises; it gives None exactly when the text,
\* once only digits and points are left, is empty or is not a number, and
\* the number otherwise.
C18_ParsePriceNeverRaises ==
    x_op \in {"extract_price", "ajio_extract_price"} =>
        LET cleaned == KeepNumeric(RemoveCommas(price_text))
        IN IF IsFloatLiteral(cleaned)
           THEN price_out = FloatOf(cleaned)
           ELSE price_out = NoPrice

\* ------------------------------------- claims: run loop of ajio_scrapper.py

\* C19: the persisted collection never holds two records of the same
\* product (the same non-empty product_url).
C19_NoDuplicateProducts ==
    \A i, j \in 1..Len(persisted) :
        (i # j /\ persisted[i].product_url # "") =>
            persisted[i].product_url # persisted[j].product_url

NoPath == {"not called", None}

\* C20: every item whose record has a name is appended, whatever its image
\* download gave; when download_image returned no path (or was not called)
\* the appended record has an empty image_path and image_count is unchanged;
\* image_path is set, and image_count goes up by one, only when
\* download_image returned a path.
C20_FailedFetchKeepsRecord ==
    [][(rpc = "extract" /\ items_left' = items_left - 1
            /\ h_pdata'.product_name # "") =>
         /\ Len(all_products') = Len(all_products) + 1
         /\ LET r == all_products'[Len(all_products')]
            IN /\ r.product_name = h_pdata'.product_name
               /\ h_download' \in NoPath =>
                    (r.image_path = "" /\ image_count' = image_count)
               /\ h_download' \notin NoPath =>
                    (r.image_path # "" /\ image_count' = image_count + 1)]_vars

C20_Witness ==
    /\ h_download = None
    /\ all_products # <<>>
    /\ all_products[Len(all_products)].image_url # ""
    /\ all_products[Len(all_products)].image_path = ""
    /\ image_count = 0

\* ------------------------------------------------- claims: order of a run

\* The keywords whose navigation was started are the first ones of the
\* enumeration, up to the current one.
VisitedInOrder ==
    /\ h_visited \subseteq 1..unit
    /\ 1..(unit - 1) \subseteq h_visited
    /\ rpc \in {"scroll", "extract"} => unit \in h_visited

\* One step of the run keeps the order navigation, scroll, extraction within
\* a keyword, and reaches the next keyword only from a finished extraction
\* (or from a navigation that failed and was skipped).
OrderedStep ==
    /\ (rpc' = "scroll" /\ rpc # "scroll") => (rpc = "nav" /\ unit' = unit)
    /\ (rpc' = "extract" /\ rpc # "extract") => (rpc = "scroll" /\ unit' = unit)
    /\ (rpc' = "nav" /\ rpc = "extract") => (items_left = 0 /\ unit' = unit + 1)
    /\ (rpc' = "nav" /\ rpc \notin {"extract", "nav"}) => (rpc = "start" /\ unit' = unit)
    /\ unit' # unit =>
         /\ unit' = unit + 1
         /\ rpc' = "nav"
         /\ rpc \in {"extract", "nav"}
         /\ rpc = "nav" => unit \in h_navfail'
    /\ Len(all_products') # Len(all_products) =>
         (rpc = "extract" /\ rpc' \in {"extract", "end"} /\ unit' = unit)
    /\ (rpc' \in {"save", "close"} /\ rpc = "extract") => items_left = 0

\* C21: keywords are processed one at a time in enumeration order; within a
\* keyword navigation comes before the scroll, the scroll before the
\* extraction, and the extraction with its downloads is over before the
\* navigation of the next keyword starts.
C21_SequentialUnits == []VisitedInOrder /\ [][OrderedStep]_vars

C21_Witness ==
    /\ rpc = "extract"
    /\ unit = 2
    /\ items_left = 0
    /\ h_visited = {1, 2}
    /\ all_products # <<>>
    /\ all_products[Len(all_products)].unit = 2

\* --------------------------------------------- claims: end-of-run summary

Abs(x) == IF x < 0 THEN -x ELSE x

\* C22: the success rate of the final summary is accepted / (accepted +
\* failed) as a percentage (to the hundredth), it is 0 when nothing was
\* accepted, and computing it never divides by zero.
C22_SuccessRate ==
    success_rate # NoResult =>
        LET accepted == Len(all_products)
            total == accepted + failed_extractions
        IN /\ success_rate # ZeroDivisionError
           /\ accepted = 0 => success_rate = 0
           /\ total > 0 =>
                2 * Abs(success_rate * total - 10000 * accepted) <= total

C22_Witness ==
    /\ success_rate = 3333
    /\ Len(all_products) = 1
    /\ failed_extractions = 2

\* ---------------------------------------------------- claims: media namer

FileNameChars == LowerLetters \cup Digits \cup {"-"}

C24_ReturnsLastCounted ==
    spc = "done" => s_result = prev_count

\* ------------------------------ claims: run loop of ajio_scrapper.py, again

\* C25: the file a record's image_path names holds the bytes of that
\* record's own image_url.
C25_ImageFileIsOwn ==
    \A i \in 1..Len(all_products) :
        all_products[i].image_path # "" =>
            files[AjioImagePath(all_products[i].product_name,
                                all_products[i].brand)] = all_products[i].image_url

\* C26: in every state of the scroll loop stable_cycles lies between 0 and
\* NO_GROWTH_CYCLES, stable_cycles <= tries <= MAX_SCROLL_TRIES, and
\* prev_count is the count sampled in the latest cycle (0 before the first).
C26_LoopInvariant ==
    /\ 0 <= stable_cycles
    /\ stable_cycles <= NO_GROWTH_CYCLES
    /\ stable_cycles <= tries
    /\ tries <= MAX_SCROLL_TRIES
    /\ tries = h_cycles
    /\ prev_count = h_last

C26_Witness ==
    /\ spc = "done"
    /\ stable_cycles = NO_GROWTH_CYCLES
    /\ tries > NO_GROWTH_CYCLES
    /\ prev_count > 0
    /\ prev_count = h_last

RECURSIVE CountWithImage(_)
CountWithImage(recs) ==
    IF recs = <<>> THEN 0
    ELSE (IF Head(recs).image_url # "" THEN 1 ELSE 0) + CountWithImage(Tail(recs))

\* C27: after each raw item of scrape_ajio the category tally and the brand
\* tally both equal the number of records collected, the records collected
\* plus failed_extractions equal the raw items processed so far, and
\* image_count is at most the number of collected records with an image URL.
C27_CountersAgree ==
    /\ category_counter = Len(all_products)
    /\ brand_counter = Len(all_products)
    /\ Len(all_products) + failed_extractions = h_found - items_left
    /\ image_count <= CountWithImage(all_products)

C27_Witness ==
    /\ rpc = "extract"
    /\ items_left = 0
    /\ h_found = 3
    /\ failed_extractions = 1
    /\ Len(all_products) = 2
    /\ image_count = 1
    /\ CountWithImage(all_products) = 2

\* ------------------------------------------------ claims: run loop, again

\* The run has ended and its driver was created.
EndedWithDriver == rpc = "end" /\ driver # "none"

\* C28: however scrape_culture_circle ends once the driver was created
\* (normally, or by an exception of navigation, scroll, extraction,
\* download or save, or by an interrupt), driver.quit() ran exactly once,
\* and nothing of the run changes after it.
C28_DriverQuitOnce ==
    /\ [](/\ n_quits <= 1
          /\ EndedWithDriver => (n_quits = 1 /\ driver = "quit")
          /\ driver = "quit" <=> n_quits = 1)
    /\ [][n_quits = 1 =>
            UNCHANGED <<all_products, persisted, n_saves, summary, files, n_quits>>]_vars

C28_Witness ==
    /\ EndedWithDriver
    /\ exc = "save"
    /\ n_quits = 1
    /\ all_products # <<>>

\* ------------------------------------------ claims: media fetcher, again

\* C29: a call with a non-empty URL returns a path only when a file is at
\* that path, and, when no file was there before the call, only after at
\* least one request; this includes the record whose file name is empty.
C29_PathMeansFile ==
    (fpc = "done" /\ image_url # "" /\ f_result # None) =>
        /\ f_result \in Paths
        /\ files[f_result] # "none"
        /\ ~h_existed => h_net >= 1

====
